---- MODULE Spec2Model ----
(***************************************************************************)
(* Model of brls::Application (library/lib/application.cpp): the view      *)
(* stack with its push/pop transitions and input-block counter, the        *)
(* gamepad button dispatch (actions, then directional navigation), the     *)
(* drawing of a frame and the steps of a tick of mainLoop.                 *)
(***************************************************************************)
EXTENDS Integers, Sequences, FiniteSets, TLC

\* ------------------------------------------------------------------ bounds
\* Number of pushView / effective popView calls of one run.  A transition is
\* named by its number; the view created by a pushView carries the number
\* of that pushView.
MaxTransitions == 4

\* nullptr
NoView == 0

Views == 1..MaxTransitions

\* ViewAnimation: only FADE against the other kinds is ever tested.
Animations == {"FADE", "SLIDE"}

VARIABLES
    viewStack,          \* Application::viewStack, bottom first
    focusStack,         \* Application::focusStack
    currentFocus,       \* Application::currentFocus
    blockInputsTokens,  \* Application::blockInputsTokens
    translucent,        \* per view: the view's own translucency
    forceTranslucent,   \* per view: View::forceTranslucent
    hidden,             \* per view: View::hidden
    destroyed,          \* views on which delete has run
    pending,            \* completion callbacks of the running animations
    nextTr,             \* number of the next transition
    crashed,            \* undefined behaviour has ended the run
    exited,             \* Application::exit has run
    lastOp,             \* the operation that made the last step
    opSeq,              \* flips at every call of pushView / popView
    held,               \* per transition: blockInputs minus unblockInputs
    underflow,          \* unblockInputs was called with the counter at 0
    cbCount,            \* per popView: invocations of its cb argument
    disappeared,        \* views on which willDisappear has fired
    popOf,              \* per popView: the view it hides (NoView otherwise)
    parent,             \* per view: View::parent (NoView for a tree's root)
    actions,            \* per view: View::actions, in registration order
    repetitionOldFocus, \* Application::repetitionOldFocus
    ev,                 \* the button event handled by the last step, if any
    atPush,             \* per view: stacks and focus when pushView was called
    overlap,            \* pushView / popView was called during a pop's hide
    rendered,           \* the views the last Application::frame drew, in order
    calls,              \* the calls the last step made, if it was a pushView
    focused,            \* the views with onFocusGained and no onFocusLost since
    focusLog,           \* what the giveFocus of the last step called, in order
    pc,                 \* mainLoop: the step the running tick is at
    kDown,              \* mainLoop: the buttons held, as sampled by this tick
    buttonIndex,        \* mainLoop: the loop variable i
    anyButtonPressed,   \* mainLoop: the local of that name
    buttons,            \* Application::buttons
    repeatingButtonTimer, \* mainLoop: the static of that name
    tickLog,            \* what the running (or last) tick has done so far
    hold                \* per button: the actions invoked since it went down

vars == <<viewStack, focusStack, currentFocus, blockInputsTokens, translucent,
          forceTranslucent, hidden, destroyed, pending, nextTr, crashed,
          exited, lastOp, opSeq, held, underflow, cbCount, disappeared,
          popOf, parent, actions, repetitionOldFocus, ev, atPush, overlap,
          rendered, calls, focused, focusLog, pc, kDown, buttonIndex,
          anyButtonPressed, buttons,
          repeatingButtonTimer, tickLog, hold>>

\* The state of mainLoop.
loopVars == <<pc, kDown, buttonIndex, anyButtonPressed, buttons,
              repeatingButtonTimer, tickLog, hold>>

\* What the view-stack operations leave alone (pushView registers actions).
inputVars == <<parent, repetitionOldFocus, ev, loopVars>>

\* ----------------------------------------------------------------- helpers
Top(s) == s[Len(s)]

Front(s) == SubSeq(s, 1, Len(s) - 1)

\* View::isTranslucent
isTranslucent(v) == translucent[v] \/ forceTranslucent[v]

\* View::hasParent / View::getParent
hasParent(v) == parent[v] # NoView

children(v) == {c \in DOMAIN parent : parent[c] = v}

\* View::getDefaultFocus: descend to the first child until a leaf is met.
RECURSIVE getDefaultFocus(_)
getDefaultFocus(v) ==
    IF children(v) = {} THEN v
    ELSE getDefaultFocus(CHOOSE c \in children(v) :
                            \A d \in children(v) : c <= d)

\* An action of a view: its key, its available flag, and what its listener
\* returns when it is invoked.
Action(key, available, consumes) ==
    [key |-> key, available |-> available, consumes |-> consumes]

\* View::registerAction: the action is added after the registered ones.
registerAction(list, action) == Append(list, action)

\* The two actions pushView registers on every pushed view, lines 774-776.
ExitAction == Action("PLUS", TRUE, TRUE)

FpsAction == Action("MINUS", TRUE, TRUE)

\* No button event yet.
NoEvent ==
    [button |-> "NONE", repeating |-> FALSE, tokens |-> 0, focus |-> NoView,
     oldFocus |-> NoView, dispatched |-> FALSE, invoked |-> <<>>,
     handled |-> FALSE,
     navigated |-> <<>>, asked |-> <<>>, found |-> NoView, shaken |-> <<>>,
     focusEvents |-> 0]

\* giveFocus that leaves the focus where it is.
giveFocusKeep(view) == currentFocus

\* The focus Application::giveFocus(view) leaves in currentFocus.
giveFocus(view) == IF view = NoView THEN NoView ELSE getDefaultFocus(view)

\* giveFocus without the test of line 684.
giveFocusCallsAlways(oldFocus, newFocus) ==
    (IF oldFocus # NoView THEN <<<<"onFocusLost", "oldFocus">>>> ELSE <<>>)
    \o <<<<"currentFocus", "newFocus">>,
         <<"globalFocusChangeEvent", "newFocus">>>>
    \o (IF newFocus # NoView
           THEN <<<<"onFocusGained", "newFocus">>>> ELSE <<>>)

\* What Application::giveFocus calls and assigns, in the order of its
\* statements (lines 684-697), each with the local variable it is called on
\* or with; oldFocus and newFocus are the values of lines 681 and 682.
giveFocusCalls(oldFocus, newFocus) ==
    IF oldFocus # newFocus
        THEN (IF oldFocus # NoView
                 THEN <<<<"onFocusLost", "oldFocus">>>> ELSE <<>>)
             \o <<<<"currentFocus", "newFocus">>,
                  <<"globalFocusChangeEvent", "newFocus">>>>
             \o (IF newFocus # NoView
                    THEN <<<<"onFocusGained", "newFocus">>>> ELSE <<>>)
        ELSE <<>>

\* The views left with the focus hooks of a log applied to a set of views.
RECURSIVE focusedAfter(_, _, _, _)
focusedAfter(set, log, oldFocus, newFocus) ==
    IF log = <<>> THEN set
    ELSE focusedAfter(IF Head(log) = <<"onFocusLost", "oldFocus">>
                          THEN set \ {oldFocus}
                      ELSE IF Head(log) = <<"onFocusGained", "newFocus">>
                          THEN set \cup {newFocus}
                      ELSE set,
                      Tail(log), oldFocus, newFocus)

\* A step with a call of giveFocus(view).
focusHooks(view) ==
    \E newFocus \in {giveFocus(view)} :
    \E log \in {giveFocusCalls(currentFocus, newFocus)} :
        /\ focusLog' = log
        /\ focused' = focusedAfter(focused, log, currentFocus, newFocus)

\* A step without a call of giveFocus.
noFocusHooks ==
    /\ focusLog' = <<>>
    /\ UNCHANGED focused

\* giveFocus touches a deleted object.
giveFocusUB(view) ==
    \/ view \in destroyed
    \/ currentFocus # giveFocus(view) /\ currentFocus \in destroyed

Running == ~crashed /\ ~exited

\* What atPush remembers of a pushView call.
Pushed(stack, focuses, focus) ==
    [stack |-> stack, focusStack |-> focuses, focus |-> focus]

NotPushed == Pushed(<<>>, <<>>, NoView)

\* The hide animation of some popView is running.
popRunning == \E c \in pending : c.kind = "popHide"

Callback(tr, kind, view, wait) ==
    [tr |-> tr, kind |-> kind, view |-> view, wait |-> wait]

\* unblockInputs as a flag reset instead of a counted release.
unblockInputsReset(n) == 0

\* Application::unblockInputs
unblockInputs(n) == IF n > 0 THEN n - 1 ELSE n

\* ------------------------------------------------------- mainLoop statics
\* The buttons mainLoop scans, in the order of their bits.
ButtonOrder == <<"PLUS", "DLEFT", "DDOWN">>

LoopButtons == {ButtonOrder[i] : i \in DOMAIN ButtonOrder}

\* A tick that has not started: what the platform answers in the tick
\* (appletMainLoop, the buttons held, whether the clock has moved on), the
\* steps taken, the button events dispatched, the calls of exit and the
\* value returned.
NoTick ==
    [applet |-> TRUE, held |-> {}, elapsed |-> FALSE, steps |-> <<>>,
     events |-> <<>>, exits |-> 0, result |-> "none"]

\* mainLoop has not been called: no button is down, the timer is 0.
\* A button that has invoked no action since it went down: the actions it
\* has invoked, and whether the focus has changed since the last of them.
NoHold == [invoked |-> {}, moved |-> FALSE]

InitLoopVars ==
    /\ pc = "idle"
    /\ kDown = {}
    /\ buttonIndex = 0
    /\ anyButtonPressed = FALSE
    /\ buttons = [b \in LoopButtons |-> FALSE]
    /\ repeatingButtonTimer = 0
    /\ tickLog = NoTick
    /\ hold = [b \in LoopButtons |-> NoHold]

Init ==
    /\ viewStack = <<>>
    /\ focusStack = <<>>
    /\ currentFocus = NoView
    /\ blockInputsTokens = 0
    /\ translucent = [v \in Views |-> FALSE]
    /\ forceTranslucent = [v \in Views |-> FALSE]
    /\ hidden = [v \in Views |-> FALSE]
    /\ destroyed = {}
    /\ pending = {}
    /\ nextTr = 1
    /\ crashed = FALSE
    /\ exited = FALSE
    /\ lastOp = "init"
    /\ opSeq = 0
    /\ held = [t \in Views |-> 0]
    /\ underflow = FALSE
    /\ cbCount = [t \in Views |-> 0]
    /\ disappeared = {}
    /\ popOf = [t \in Views |-> NoView]
    /\ parent = [v \in Views |-> NoView]
    /\ actions = [v \in Views |-> <<>>]
    /\ repetitionOldFocus = NoView
    /\ ev = NoEvent
    /\ atPush = [v \in Views |-> NotPushed]
    /\ overlap = FALSE
    /\ rendered = <<>>
    /\ calls = <<>>
    /\ focused = {currentFocus} \ {NoView}
    /\ focusLog = <<>>
    /\ InitLoopVars

\* ---------------------------------------------------------------- pushView
pushLast == IF Len(viewStack) > 0 THEN Top(viewStack) ELSE NoView

pushFadeOut(tl) == pushLast # NoView /\ ~isTranslucent(pushLast) /\ ~tl

\* pushView starting the show of the new view whatever the animation.
pushShowsAlways(view, fadeOut, wait) ==
    {Callback(view, "showUnblock", view, wait)}

\* pushView without the show of the overlay path (line 807).
pushShowsFadeOnly(view, fadeOut, wait) ==
    IF fadeOut /\ ~wait
        THEN {Callback(view, "showUnblock", view, wait)} ELSE {}

\* The shows pushView starts inside the call: lines 786 and 807.
pushShows(view, fadeOut, wait) ==
    (IF fadeOut /\ ~wait
        THEN {Callback(view, "showUnblock", view, wait)} ELSE {})
    \cup (IF ~fadeOut
        THEN {Callback(view, "showUnblock", view, wait)} ELSE {})

\* A call pushView makes on a view (NoView: on Application itself).
Call(name, view) == <<name, view>>

\* pushView preparing the view before it starts any animation.
pushCallsLayoutFirst(view, last, fadeOut, wait, nonEmpty) ==
    <<Call("blockInputs", NoView),
      Call("registerAction", view), Call("registerAction", view),
      Call("setBoundaries", view), Call("invalidate", view),
      Call("willAppear", view)>>
    \o (IF fadeOut
           THEN <<Call("setForceTranslucent", view)>>
                \o (IF ~wait THEN <<Call("show", view)>> ELSE <<>>)
                \o <<Call("hide", last)>>
           ELSE <<Call("show", view)>>)
    \o (IF nonEmpty THEN <<Call("focusStack.push_back", NoView)>> ELSE <<>>)
    \o <<Call("giveFocus", view), Call("viewStack.push_back", view)>>

\* The calls of pushView in the order of its statements, lines 766-824.
pushCalls(view, last, fadeOut, wait, nonEmpty) ==
    <<Call("blockInputs", NoView),
      Call("registerAction", view), Call("registerAction", view)>>
    \o (IF fadeOut
           THEN <<Call("setForceTranslucent", view)>>
                \o (IF ~wait THEN <<Call("show", view)>> ELSE <<>>)
                \o <<Call("hide", last)>>
           ELSE <<>>)
    \o <<Call("setBoundaries", view)>>
    \o (IF ~fadeOut THEN <<Call("show", view)>> ELSE <<>>)
    \o (IF nonEmpty THEN <<Call("focusStack.push_back", NoView)>> ELSE <<>>)
    \o <<Call("invalidate", view), Call("willAppear", view),
         Call("giveFocus", view), Call("viewStack.push_back", view)>>

\* pushView dereferences a deleted view or a null focus.
PushViewUB ==
    \/ pushLast \in destroyed
    \/ Len(viewStack) > 0 /\ (currentFocus = NoView \/ currentFocus \in destroyed)
    \/ currentFocus \in destroyed

PushView(tl, animation) ==
    LET view    == nextTr
        last    == pushLast
        fadeOut == pushFadeOut(tl)
        wait    == animation = "FADE"
        shows   == pushShows(view, fadeOut, wait)
        hides   == IF fadeOut
                      THEN {Callback(view, "pushHide", last, wait)} ELSE {}
    IN  /\ Running
        /\ rendered' = <<>>
        /\ calls' = pushCalls(view, last, fadeOut, wait, Len(viewStack) > 0)
        /\ nextTr <= MaxTransitions
        /\ blockInputsTokens' = blockInputsTokens + 1
        /\ held' = [held EXCEPT ![view] = @ + 1]
        /\ translucent' = [translucent EXCEPT ![view] = tl]
        /\ forceTranslucent' = [forceTranslucent EXCEPT ![view] = fadeOut]
        /\ hidden' = [v \in Views |->
                         IF fadeOut /\ v = last THEN TRUE
                         ELSE IF v = view /\ shows # {} THEN FALSE
                         ELSE hidden[v]]
        /\ pending' = pending \cup shows \cup hides
        /\ focusStack' = IF Len(viewStack) > 0
                            THEN Append(focusStack, currentFocus)
                            ELSE focusStack
        /\ currentFocus' = giveFocus(getDefaultFocus(view))
        /\ focusHooks(getDefaultFocus(view))
        /\ viewStack' = Append(viewStack, view)
        /\ nextTr' = nextTr + 1
        /\ lastOp' = "pushView"
        /\ opSeq' = 1 - opSeq
        /\ actions' = [actions EXCEPT ![view] =
                          registerAction(registerAction(@, ExitAction), FpsAction)]
        /\ atPush' = [atPush EXCEPT ![view] = Pushed(viewStack, focusStack,
                                                       currentFocus)]
        /\ overlap' = (overlap \/ popRunning)
        /\ UNCHANGED <<destroyed, crashed, exited, underflow, cbCount,
                       disappeared, popOf, inputVars>>

\* ----------------------------------------------------------------- popView
\* The root-view guard off by one.
popNoOpEmptyOnly == Len(viewStack) < 1

\* popView returns at once: line 702.
popNoOp == Len(viewStack) <= 1

PopViewUB(animation) ==
    /\ ~popNoOp
    /\ \/ Top(viewStack) \in destroyed
       \/ /\ animation # "FADE"
          /\ Len(viewStack) > 1
          /\ viewStack[Len(viewStack) - 1] \in destroyed
       \/ Len(focusStack) > 0
            /\ (Top(focusStack) = NoView \/ giveFocusUB(Top(focusStack)))

PopView(animation) ==
    /\ Running
    /\ rendered' = <<>>
    /\ calls' = <<>>
    /\ lastOp' = "popView"
    /\ opSeq' = 1 - opSeq
    /\ IF popNoOp
          THEN /\ noFocusHooks
               /\ UNCHANGED <<viewStack, focusStack, currentFocus,
                              blockInputsTokens, translucent, forceTranslucent,
                              hidden, destroyed, pending, nextTr, crashed,
                              exited, held, underflow, cbCount, disappeared,
                              popOf, actions, inputVars, atPush, overlap>>
          ELSE
            LET tr     == nextTr
                last   == Top(viewStack)
                wait   == animation = "FADE"
                toShow == viewStack[Len(viewStack) - 1]
                shows  == IF ~wait /\ Len(viewStack) > 1
                             THEN {Callback(tr, "showCb", toShow, wait)}
                             ELSE {}
            IN  /\ nextTr <= MaxTransitions
                /\ blockInputsTokens' = blockInputsTokens + 1
                /\ held' = [held EXCEPT ![tr] = @ + 1]
                /\ disappeared' = disappeared \cup {last}
                /\ popOf' = [popOf EXCEPT ![tr] = last]
                /\ forceTranslucent' = [forceTranslucent EXCEPT ![last] = TRUE]
                /\ hidden' = [v \in Views |->
                                 IF shows # {} /\ v = toShow THEN FALSE
                                 ELSE IF v = last THEN TRUE
                                 ELSE hidden[v]]
                /\ pending' = pending
                                \cup {Callback(tr, "popHide", last, wait)}
                                \cup shows
                /\ IF Len(focusStack) > 0
                      THEN /\ currentFocus' = giveFocus(Top(focusStack))
                           /\ focusHooks(Top(focusStack))
                           /\ focusStack' = Front(focusStack)
                      ELSE /\ noFocusHooks
                           /\ UNCHANGED <<currentFocus, focusStack>>
                /\ nextTr' = nextTr + 1
                /\ overlap' = (overlap \/ popRunning)
                /\ UNCHANGED <<viewStack, translucent, destroyed, crashed,
                               exited, underflow, cbCount, actions, inputVars,
                               atPush>>

\* ------------------------------------------------- animation completions
\* The hide-completion callback of popView, lines 715-738.
PopHideDoneUB(c) ==
    \/ c.view \in destroyed
    \/ Len(viewStack) = 0
    \/ /\ Len(viewStack) > 1
       /\ c.wait
       /\ viewStack[Len(viewStack) - 1] \in destroyed \cup {c.view}

PopHideDone(c) ==
    LET last    == c.view
        stack   == Front(viewStack)
        newLast == Top(stack)
        chain   == Len(stack) > 0 /\ c.wait
        reshow  == chain /\ hidden[newLast]
    IN  /\ Running
        /\ rendered' = <<>>
        /\ calls' = <<>>
        /\ noFocusHooks
        /\ c \in pending
        /\ c.kind = "popHide"
        /\ Len(viewStack) > 0
        /\ forceTranslucent' = [forceTranslucent EXCEPT ![last] = FALSE]
        /\ viewStack' = stack
        /\ destroyed' = destroyed \cup {last}
        /\ hidden' = IF reshow THEN [hidden EXCEPT ![newLast] = FALSE]
                               ELSE hidden
        /\ pending' = (pending \ {c})
                        \cup (IF reshow
                                 THEN {Callback(c.tr, "showCb", newLast, c.wait)}
                                 ELSE {})
        /\ cbCount' = IF chain /\ ~reshow
                         THEN [cbCount EXCEPT ![c.tr] = @ + 1]
                         ELSE cbCount
        /\ underflow' = (underflow \/ blockInputsTokens = 0)
        /\ blockInputsTokens' = unblockInputs(blockInputsTokens)
        /\ held' = [held EXCEPT ![c.tr] = @ - 1]
        /\ lastOp' = "popHideDone"
        /\ UNCHANGED <<focusStack, currentFocus, translucent, nextTr, crashed,
                       exited, opSeq, disappeared, popOf, actions, inputVars, atPush,
                       overlap>>

\* The hide-completion callback of pushView, lines 792-800.
PushHideDoneUB(c) ==
    \/ Len(viewStack) = 0
    \/ Len(viewStack) > 0 /\ Top(viewStack) \in destroyed

\* The callback leaving the flag of the new view set.
pushHideKeepsFlag(newLast) == forceTranslucent

\* Line 794: newLast->setForceTranslucent(false).
pushHideClearsFlag(newLast) == [forceTranslucent EXCEPT ![newLast] = FALSE]

PushHideDone(c) ==
    LET newLast == Top(viewStack)
    IN  /\ Running
        /\ rendered' = <<>>
        /\ calls' = <<>>
        /\ noFocusHooks
        /\ c \in pending
        /\ c.kind = "pushHide"
        /\ Len(viewStack) > 0
        /\ forceTranslucent' = pushHideClearsFlag(newLast)
        /\ hidden' = IF c.wait THEN [hidden EXCEPT ![newLast] = FALSE]
                               ELSE hidden
        /\ pending' = (pending \ {c})
                        \cup (IF c.wait
                                 THEN {Callback(c.tr, "showUnblock", newLast, c.wait)}
                                 ELSE {})
        /\ lastOp' = "pushHideDone"
        /\ UNCHANGED <<viewStack, focusStack, currentFocus, blockInputsTokens,
                       translucent, destroyed, nextTr, crashed, exited, opSeq,
                       held, underflow, cbCount, disappeared, popOf, actions,
                           inputVars, atPush, overlap>>

\* Completion of a show started by pushView: [] { unblockInputs(); }
ShowUnblockDone(c) ==
    /\ Running
    /\ rendered' = <<>>
    /\ calls' = <<>>
    /\ noFocusHooks
    /\ c \in pending
    /\ c.kind = "showUnblock"
    /\ pending' = pending \ {c}
    /\ underflow' = (underflow \/ blockInputsTokens = 0)
    /\ blockInputsTokens' = unblockInputs(blockInputsTokens)
    /\ held' = [held EXCEPT ![c.tr] = @ - 1]
    /\ lastOp' = "showDone"
    /\ UNCHANGED <<viewStack, focusStack, currentFocus, translucent,
                   forceTranslucent, hidden, destroyed, nextTr, crashed,
                   exited, opSeq, cbCount, disappeared, popOf, actions, inputVars, atPush,
                       overlap>>

\* Completion of a show started by popView: the caller's cb.
ShowCbDone(c) ==
    /\ Running
    /\ rendered' = <<>>
    /\ calls' = <<>>
    /\ noFocusHooks
    /\ c \in pending
    /\ c.kind = "showCb"
    /\ pending' = pending \ {c}
    /\ cbCount' = [cbCount EXCEPT ![c.tr] = @ + 1]
    /\ lastOp' = "showDone"
    /\ UNCHANGED <<viewStack, focusStack, currentFocus, blockInputsTokens,
                   translucent, forceTranslucent, hidden, destroyed, nextTr,
                   crashed, exited, opSeq, held, underflow, disappeared,
                   popOf, actions, inputVars, atPush,
                       overlap>>

\* ------------------------------------------------------------------- frame
\* The walk stopping at the first view that has no translucency of its own.
drawStopsUnforced(view) == ~translucent[view]

\* Lines 588-589: the walk stops at a view that is not translucent.
drawStops(view) == ~isTranslucent(view)

\* The first loop of frame, lines 583-590, when i views have been collected:
\* what it still adds to viewsToDraw.
RECURSIVE collectViews(_, _)
collectViews(stack, i) ==
    IF i >= Len(stack) THEN <<>>
    ELSE LET view == stack[Len(stack) - i]
         IN  IF drawStops(view) THEN <<view>>
             ELSE <<view>> \o collectViews(stack, i + 1)

\* viewsToDraw after the first loop: the top of the stack first.
viewsToDraw == collectViews(viewStack, 0)

\* The second loop, lines 592-596: the views in the order their frame() is
\* called.
drawOrder(views) == [i \in 1..Len(views) |-> views[Len(views) + 1 - i]]

\* Application::frame
frame ==
    /\ rendered' = drawOrder(viewsToDraw)
    /\ calls' = <<>>
    /\ noFocusHooks
    /\ lastOp' = "frame"
    /\ UNCHANGED <<viewStack, focusStack, currentFocus, blockInputsTokens,
                   translucent, forceTranslucent, hidden, destroyed, pending,
                   nextTr, crashed, exited, opSeq, held, underflow, cbCount,
                   disappeared, popOf, parent, actions, repetitionOldFocus,
                   ev, atPush, overlap>>

\* A frame drawn while the program runs.
Frame ==
    /\ Running
    /\ frame
    /\ UNCHANGED loopVars

\* frame reads or draws a deleted view.
FrameUB == \E i \in 1..Len(viewsToDraw) : viewsToDraw[i] \in destroyed

\* clear() deletes a view a second time.
ExitUB == \E i \in 1..Len(viewStack) : viewStack[i] \in destroyed

\* ------------------------------------------------------ undefined behaviour
\* A step that uses a deleted view, deletes a view twice, or indexes or pops
\* the empty vector is undefined: besides running on with the stale object
\* (the actions above), the program may stop.
UndefinedBehaviour ==
    /\ Running
    /\ rendered' = <<>>
    /\ calls' = <<>>
    /\ noFocusHooks
    /\ \/ nextTr <= MaxTransitions /\ PushViewUB
       \/ \E a \in Animations : nextTr <= MaxTransitions /\ PopViewUB(a)
       \/ \E c \in pending : c.kind = "popHide" /\ PopHideDoneUB(c)
       \/ \E c \in pending : c.kind = "pushHide" /\ PushHideDoneUB(c)
       \/ ExitUB
    /\ crashed' = TRUE
    /\ lastOp' = "crash"
    /\ UNCHANGED <<viewStack, focusStack, currentFocus, blockInputsTokens,
                   translucent, forceTranslucent, hidden, destroyed, pending,
                   nextTr, exited, opSeq, held, underflow, cbCount,
                   disappeared, popOf, actions, inputVars, atPush,
                       overlap>>

\* --------------------------------------------------------------------- exit
\* Application::exit: clear() and menu_animation_free().
exit ==
    /\ rendered' = <<>>
    /\ calls' = <<>>
    /\ noFocusHooks
    /\ disappeared' = disappeared \cup {viewStack[i] : i \in 1..Len(viewStack)}
    /\ destroyed' = destroyed \cup {viewStack[i] : i \in 1..Len(viewStack)}
    /\ viewStack' = <<>>
    /\ pending' = {}
    /\ exited' = TRUE
    /\ lastOp' = "exit"
    /\ UNCHANGED <<focusStack, currentFocus, blockInputsTokens, translucent,
                   forceTranslucent, hidden, nextTr, crashed, opSeq, held,
                   underflow, cbCount, popOf, actions, parent,
                   repetitionOldFocus, ev, atPush, overlap>>

\* Application::exit called by application code.
Exit ==
    /\ Running
    /\ exit
    /\ UNCHANGED loopVars

Next ==
    \/ \E tl \in BOOLEAN, a \in Animations : PushView(tl, a)
    \/ \E a \in Animations : PopView(a)
    \/ \E c \in pending : PopHideDone(c)
    \/ \E c \in pending : PushHideDone(c)
    \/ \E c \in pending : ShowUnblockDone(c)
    \/ \E c \in pending : ShowCbDone(c)
    \/ UndefinedBehaviour
    \/ Exit

Spec == Init /\ [][Next]_vars

\* ------------------------------------------------- transitions and frames
\* Drawing a deleted view is undefined: the program may stop there.
FrameUndefined ==
    /\ Running
    /\ FrameUB
    /\ crashed' = TRUE
    /\ lastOp' = "crash"
    /\ rendered' = <<>>
    /\ calls' = <<>>
    /\ noFocusHooks
    /\ UNCHANGED <<viewStack, focusStack, currentFocus, blockInputsTokens,
                   translucent, forceTranslucent, hidden, destroyed, pending,
                   nextTr, exited, opSeq, held, underflow, cbCount,
                   disappeared, popOf, actions, inputVars, atPush, overlap>>

\* The view-stack operations with frames drawn between them.
NextFrame ==
    \/ Next
    \/ Frame
    \/ FrameUndefined

SpecFrame == Init /\ [][NextFrame]_vars

\* ------------------------------------------------------------ frame alone
\* The stacks frame is applied to: the views pushed so far, each with any
\* translucency of its own; any view but the root may have been left forced
\* translucent by a transition (pushView and popView set the flag on the top
\* view, and the root is neither pushed over a view nor popped).
InitDraw ==
    /\ \E n \in 0..MaxTransitions :
          /\ viewStack = [i \in 1..n |-> i]
          /\ translucent \in [Views -> BOOLEAN]
          /\ forceTranslucent \in [Views -> BOOLEAN]
          /\ \A v \in Views :
                /\ v > n => ~translucent[v]
                /\ (v > n \/ v = 1) => ~forceTranslucent[v]
          /\ focusStack = [i \in 1..(n - 1) |-> i]
          /\ currentFocus = n
          /\ nextTr = n + 1
    /\ blockInputsTokens = 0
    /\ hidden = [v \in Views |-> FALSE]
    /\ destroyed = {}
    /\ pending = {}
    /\ crashed = FALSE
    /\ exited = FALSE
    /\ lastOp = "init"
    /\ opSeq = 0
    /\ held = [t \in Views |-> 0]
    /\ underflow = FALSE
    /\ cbCount = [t \in Views |-> 0]
    /\ disappeared = {}
    /\ popOf = [t \in Views |-> NoView]
    /\ parent = [v \in Views |-> NoView]
    /\ actions = [v \in Views |-> <<>>]
    /\ repetitionOldFocus = NoView
    /\ ev = NoEvent
    /\ atPush = [v \in Views |-> NotPushed]
    /\ overlap = FALSE
    /\ rendered = <<>>
    /\ calls = <<>>
    /\ focused = {currentFocus} \ {NoView}
    /\ focusLog = <<>>
    /\ InitLoopVars

NextDraw == Frame

SpecDraw == InitDraw /\ [][NextDraw]_vars

\* ============================================================ button input
\* Actions registered on top of the two pushView registers.
MaxActions == 2

\* Calls of blockInputs not yet undone.
MaxBlocks == 1

\* The view trees of the input model: view 1 is a root view holding view 2,
\* which holds the focusable view 3, and the focusable view 5; view 4 is a
\* root view without children.
TreeParent == <<NoView, 1, 2, NoView, 1>>

TreeViews == DOMAIN TreeParent

Buttons == {"PLUS", "DDOWN", "DUP", "DLEFT", "DRIGHT"}

\* Keys application code registers actions for, and the views it registers
\* them on; the root views carry the two actions of pushView.
ActionKeys == {"DDOWN"}

ActionViews == {2, 3}

\* What getNextFocus may answer: nothing, or a focusable view of the tree.
NavTargets == {NoView, 3, 5}

InitInput ==
    /\ viewStack = <<1, 4>>
    /\ focusStack = <<3>>
    /\ currentFocus = 4
    /\ blockInputsTokens = 0
    /\ translucent = [v \in TreeViews |-> v = 4]
    /\ forceTranslucent = [v \in TreeViews |-> FALSE]
    /\ hidden = [v \in TreeViews |-> FALSE]
    /\ destroyed = {}
    /\ pending = {}
    /\ nextTr = 3
    /\ crashed = FALSE
    /\ exited = FALSE
    /\ lastOp = "init"
    /\ opSeq = 0
    /\ held = [t \in TreeViews |-> 0]
    /\ underflow = FALSE
    /\ cbCount = [t \in TreeViews |-> 0]
    /\ disappeared = {}
    /\ popOf = [t \in TreeViews |-> NoView]
    /\ parent = TreeParent
    /\ actions = [v \in TreeViews |->
                     IF TreeParent[v] = NoView THEN <<ExitAction, FpsAction>>
                                               ELSE <<>>]
    /\ repetitionOldFocus = NoView
    /\ ev = NoEvent
    /\ atPush = [v \in TreeViews |-> NotPushed]
    /\ overlap = FALSE
    /\ rendered = <<>>
    /\ calls = <<>>
    /\ focused = {currentFocus} \ {NoView}
    /\ focusLog = <<>>
    /\ InitLoopVars

\* What the input operations leave alone.
stackVars == <<viewStack, focusStack, translucent, forceTranslucent, hidden,
               destroyed, pending, nextTr, crashed, exited, held, underflow,
               cbCount, disappeared, popOf, parent, atPush, overlap, rendered,
               calls>>

\* ----------------------------------------------------------- handleAction
\* The views from v up to the root of its tree, v first.
RECURSIVE focusChain(_)
focusChain(v) == IF v = NoView THEN <<>> ELSE <<v>> \o focusChain(parent[v])

\* The actions of one view as <<view, index>>, in registration order.
actionRefs(v) == [i \in 1..Len(actions[v]) |-> <<v, i>>]

\* The actions the two loops of handleAction meet, in the order they meet
\* them.
RECURSIVE walkOrder(_)
walkOrder(chain) ==
    IF chain = <<>> THEN <<>>
    ELSE actionRefs(Head(chain)) \o walkOrder(Tail(chain))

actionAt(ref) == actions[ref[1]][ref[2]]

\* handleAction without the consumedKeys test.
skipActionKeyOnly(action, button, consumedKeys) == action.key # button

\* The two continue statements, lines 545-549.
skipAction(action, button, consumedKeys) ==
    \/ action.key # button
    \/ action.key \in consumedKeys

\* handleAction without the available test.
invokesAlways(action) == TRUE

\* Line 551.
invokes(action) == action.available

\* The loops of handleAction from the i-th action met.
RECURSIVE handleWalk(_, _, _, _, _)
handleWalk(refs, i, button, consumedKeys, invoked) ==
    IF i > Len(refs)
        THEN [consumedKeys |-> consumedKeys, invoked |-> invoked]
    ELSE LET action == actionAt(refs[i])
         IN  IF skipAction(action, button, consumedKeys)
                 THEN handleWalk(refs, i + 1, button, consumedKeys, invoked)
             ELSE IF invokes(action)
                 THEN handleWalk(refs, i + 1, button,
                                 IF action.consumes
                                     THEN consumedKeys \cup {action.key}
                                     ELSE consumedKeys,
                                 Append(invoked, refs[i]))
             ELSE handleWalk(refs, i + 1, button, consumedKeys, invoked)

\* Application::handleAction: its result and the listeners it invoked.
handleAction(button) ==
    LET r == handleWalk(walkOrder(focusChain(currentFocus)), 1, button, {},
                        <<>>)
    IN  [handled |-> r.consumedKeys # {}, invoked |-> r.invoked]

\* --------------------------------------------------------------- navigate
\* Views that are asked for the next focus.
Parents == {TreeParent[v] : v \in TreeViews} \ {NoView}

\* The while loop of navigate ending one level below the root of the tree.
RECURSIVE climbBelowRoot(_, _, _, _)
climbBelowRoot(cur, next, asked, ans) ==
    IF next # NoView THEN [cur |-> cur, found |-> next, asked |-> asked]
    ELSE IF \/ ~hasParent(cur)
            \/ ~hasParent(parent[cur])
            \/ ~hasParent(parent[parent[cur]])
        THEN [cur |-> cur, found |-> NoView, asked |-> asked]
    ELSE LET up == parent[cur]
         IN  climbBelowRoot(up, ans[parent[up]],
                            Append(asked, <<parent[up], ans[parent[up]]>>),
                            ans)

\* The while loop of navigate: cur is the local currentFocus, next the last
\* answer, ans[p] what p->getNextFocus returns in this call.
RECURSIVE climb(_, _, _, _)
climb(cur, next, asked, ans) ==
    IF next # NoView THEN [cur |-> cur, found |-> next, asked |-> asked]
    ELSE IF ~hasParent(cur) \/ ~hasParent(parent[cur])
        THEN [cur |-> cur, found |-> NoView, asked |-> asked]
    ELSE LET up == parent[cur]
         IN  climb(up, ans[parent[up]],
                   Append(asked, <<parent[up], ans[parent[up]]>>), ans)

\* The rejection cue played on the view the climb ended at.
shakeTargetClimbed(focus, cur) == cur

\* Line 495: the cue is played on Application::currentFocus.
shakeTarget(focus, cur) == focus

\* Application::navigate: what it asked, the focus it leaves and the cue.
navigate(direction, ans) ==
    IF currentFocus = NoView \/ ~hasParent(currentFocus)
        THEN [asked |-> <<>>, found |-> NoView, shaken |-> <<>>,
              focus |-> currentFocus]
    ELSE LET first == ans[parent[currentFocus]]
             r == climb(currentFocus, first,
                        <<<<parent[currentFocus], first>>>>, ans)
         IN  IF r.found = NoView
                 THEN [asked |-> r.asked, found |-> NoView,
                       shaken |-> <<<<shakeTarget(currentFocus, r.cur),
                                      direction>>>>,
                       focus |-> currentFocus]
                 ELSE [asked |-> r.asked, found |-> r.found, shaken |-> <<>>,
                       focus |-> giveFocus(r.found)]

\* ------------------------------------------------- onGamepadButtonPressed
\* The input gate testing for more than one token.
inputsBlockedAboveOne == blockInputsTokens > 1

\* Line 505.
inputsBlocked == blockInputsTokens # 0

\* No return after a consumed action.
returnsAfterActionNever(handled) == FALSE

\* Lines 514-515.
returnsAfterAction(handled) == handled

\* Lines 520-527.
navDirection(button) ==
    IF button = "DDOWN" THEN "DOWN"
    ELSE IF button = "DUP" THEN "UP"
    ELSE IF button = "DLEFT" THEN "LEFT"
    ELSE IF button = "DRIGHT" THEN "RIGHT"
    ELSE "NONE"

\* No repeat is filtered.
repeatFilteredNever(repeating) == FALSE

\* Lines 508-509.
repeatFiltered(repeating) == repeating /\ repetitionOldFocus = currentFocus

onGamepadButtonPressed(button, repeating) ==
    LET seen == [NoEvent EXCEPT !.button = button, !.repeating = repeating,
                                !.tokens = blockInputsTokens,
                                !.focus = currentFocus,
                                !.oldFocus = repetitionOldFocus]
        dir  == navDirection(button)
    IN  /\ lastOp' = "button"
        /\ opSeq' = 1 - opSeq
        /\ IF inputsBlocked \/ repeatFiltered(repeating)
              THEN /\ ev' = seen
                   /\ noFocusHooks
                   /\ UNCHANGED <<currentFocus, repetitionOldFocus>>
           ELSE \E h \in {handleAction(button)} :
                LET done == [seen EXCEPT !.dispatched = TRUE,
                                         !.invoked = h.invoked,
                                         !.handled = h.handled]
                IN  /\ repetitionOldFocus' = currentFocus
                    /\ IF returnsAfterAction(h.handled) \/ dir = "NONE"
                          THEN /\ ev' = done
                               /\ noFocusHooks
                               /\ UNCHANGED currentFocus
                          ELSE \E chain \in {focusChain(currentFocus)} :
                               \E ans \in
                                    {a \in [Parents -> NavTargets] :
                                        \A p \in Parents :
                                           (\A i \in DOMAIN chain :
                                               chain[i] # p)
                                              => a[p] = NoView} :
                               \E nav \in {navigate(dir, ans)} :
                                  /\ ev' = [done EXCEPT
                                               !.navigated = <<dir>>,
                                               !.asked = nav.asked,
                                               !.found = nav.found,
                                               !.shaken = nav.shaken,
                                               !.focusEvents =
                                                   IF nav.focus # currentFocus
                                                       THEN 1 ELSE 0]
                                  /\ currentFocus' = nav.focus
                                  /\ IF nav.found = NoView
                                        THEN noFocusHooks
                                        ELSE focusHooks(nav.found)
        /\ UNCHANGED <<blockInputsTokens, actions, stackVars>>

\* Application::onGamepadButtonPressed called with any arguments.
OnGamepadButtonPressed(button, repeating) ==
    /\ Running
    /\ onGamepadButtonPressed(button, repeating)
    /\ UNCHANGED loopVars

\* Application::giveFocus called by application code.
GiveFocus(view) ==
    /\ Running
    /\ currentFocus' = giveFocus(view)
    /\ focusHooks(view)
    /\ lastOp' = "giveFocus"
    /\ ev' = NoEvent
    /\ UNCHANGED <<blockInputsTokens, actions, repetitionOldFocus, opSeq,
                   stackVars, loopVars>>

\* Application::blockInputs
BlockInputs ==
    /\ Running
    /\ blockInputsTokens < MaxBlocks
    /\ blockInputsTokens' = blockInputsTokens + 1
    /\ lastOp' = "blockInputs"
    /\ ev' = NoEvent
    /\ noFocusHooks
    /\ UNCHANGED <<currentFocus, actions, repetitionOldFocus, opSeq,
                   stackVars, loopVars>>

\* Application::unblockInputs
UnblockInputs ==
    /\ Running
    /\ blockInputsTokens' = unblockInputs(blockInputsTokens)
    /\ lastOp' = "unblockInputs"
    /\ ev' = NoEvent
    /\ noFocusHooks
    /\ UNCHANGED <<currentFocus, actions, repetitionOldFocus, opSeq,
                   stackVars, loopVars>>

RECURSIVE countActions(_, _)
countActions(f, n) == IF n = 0 THEN 0 ELSE Len(f[n]) + countActions(f, n - 1)

\* The actions registered besides those of pushView.
Registered == countActions(actions, Len(TreeParent)) - 4

\* View::registerAction called by application code.
RegisterAction(view, key, available, consumes) ==
    /\ Running
    /\ Registered < MaxActions
    /\ available \/ consumes
    /\ actions' = [actions EXCEPT ![view] =
                      registerAction(@, Action(key, available, consumes))]
    /\ lastOp' = "registerAction"
    /\ ev' = NoEvent
    /\ noFocusHooks
    /\ UNCHANGED <<currentFocus, blockInputsTokens, repetitionOldFocus, opSeq,
                   stackVars, loopVars>>

NextInput ==
    \/ \E b \in Buttons, r \in BOOLEAN : OnGamepadButtonPressed(b, r)
    \/ \E v \in TreeViews \cup {NoView} : GiveFocus(v)
    \/ BlockInputs
    \/ UnblockInputs
    \/ \E v \in ActionViews, k \in ActionKeys, a \in BOOLEAN, c \in BOOLEAN :
          RegisterAction(v, k, a, c)

SpecInput == InitInput /\ [][NextInput]_vars

\* ================================================================ mainLoop
\* Ticks are started while the repeat timer is below this value.
MaxTimer == 26

BUTTON_REPEAT_DELAY == 15

BUTTON_REPEAT_CADENCY == 5

\* The application when ticks start: the tree of view 1 pushed, with or
\* without the childless view 4 on top of it, and inputs blocked or not.
\* The actions application code has registered on the root view 1: none, or
\* one for DDOWN whose listener consumes the key or does not.
LoopActions ==
    {<<>>} \cup {<<Action("DDOWN", TRUE, consumes)>> : consumes \in BOOLEAN}

InitLoop ==
    /\ \E overlay \in BOOLEAN :
          /\ viewStack = IF overlay THEN <<1, 4>> ELSE <<1>>
          /\ focusStack = IF overlay THEN <<3>> ELSE <<>>
          /\ currentFocus = IF overlay THEN 4 ELSE 3
          /\ nextTr = IF overlay THEN 3 ELSE 2
    /\ blockInputsTokens \in 0..MaxBlocks
    /\ translucent = [v \in TreeViews |-> v = 4]
    /\ forceTranslucent = [v \in TreeViews |-> FALSE]
    /\ hidden = [v \in TreeViews |-> FALSE]
    /\ destroyed = {}
    /\ pending = {}
    /\ crashed = FALSE
    /\ exited = FALSE
    /\ lastOp = "init"
    /\ opSeq = 0
    /\ held = [t \in TreeViews |-> 0]
    /\ underflow = FALSE
    /\ cbCount = [t \in TreeViews |-> 0]
    /\ disappeared = {}
    /\ popOf = [t \in TreeViews |-> NoView]
    /\ parent = TreeParent
    /\ \E own \in LoopActions :
          actions = [v \in TreeViews |->
                        IF v = 1 THEN <<ExitAction, FpsAction>> \o own
                        ELSE IF TreeParent[v] = NoView
                            THEN <<ExitAction, FpsAction>>
                        ELSE <<>>]
    /\ repetitionOldFocus = NoView
    /\ ev = NoEvent
    /\ atPush = [v \in TreeViews |-> NotPushed]
    /\ overlap = FALSE
    /\ rendered = <<>>
    /\ calls = <<>>
    /\ focused = {currentFocus} \ {NoView}
    /\ focusLog = <<>>
    /\ InitLoopVars

\* What a step of mainLoop that calls nothing leaves alone.
appVars == <<viewStack, focusStack, currentFocus, blockInputsTokens,
             translucent, forceTranslucent, hidden, destroyed, pending, nextTr,
             crashed, exited, opSeq, held, underflow, cbCount, disappeared,
             popOf, parent, actions, repetitionOldFocus, atPush, overlap,
             rendered, calls>>

\* Lines 393-408: the applet test, then hidScanInput and hidKeysHeld.
MainLoopStart(applet, keys) ==
    LET begun == [NoTick EXCEPT !.applet = applet, !.held = keys]
    IN  /\ Running
        /\ pc = "idle"
        /\ repeatingButtonTimer < MaxTimer
        /\ IF ~applet
              THEN /\ exit
                   /\ tickLog' = [begun EXCEPT !.exits = 1, !.result = "false"]
                   /\ UNCHANGED <<pc, kDown, buttonIndex, anyButtonPressed>>
              ELSE /\ kDown' = keys
                   /\ buttonIndex' = 1
                   /\ anyButtonPressed' = FALSE
                   /\ pc' = "input"
                   /\ tickLog' = [begun EXCEPT !.steps = <<"input">>]
                   /\ lastOp' = "mainLoop"
                   /\ ev' = NoEvent
                   /\ noFocusHooks
                   /\ UNCHANGED appVars
        /\ UNCHANGED <<buttons, repeatingButtonTimer, hold>>

\* The repeat test firing from the delay on.
isRepeatingFromDelay(timer) ==
    timer >= BUTTON_REPEAT_DELAY /\ timer % BUTTON_REPEAT_CADENCY = 0

\* Line 418.
isRepeating(timer) ==
    timer > BUTTON_REPEAT_DELAY /\ timer % BUTTON_REPEAT_CADENCY = 0

\* What the buttons have invoked since they went down, after the pass for
\* one button that invoked some actions and changed the focus or not.
holdAfter(button, down, invoked, changed) ==
    [b \in LoopButtons |->
        IF b # button
            THEN IF hold[b].invoked = {} THEN hold[b]
                 ELSE [hold[b] EXCEPT !.moved = @ \/ changed]
        ELSE IF ~down THEN NoHold
        ELSE LET before == IF buttons[b] THEN hold[b] ELSE NoHold
                 all    == before.invoked \cup invoked
             IN  [invoked |-> all,
                  moved   |-> IF all = {} THEN FALSE
                              ELSE IF invoked # {} THEN changed
                              ELSE before.moved \/ changed]]

\* One pass of the loop over the buttons, lines 410-428.
ScanButton ==
    LET button    == ButtonOrder[buttonIndex]
        down      == button \in kDown
        repeating == isRepeating(repeatingButtonTimer)
    IN  /\ Running
        /\ pc = "input"
        /\ buttonIndex <= Len(ButtonOrder)
        /\ anyButtonPressed' = (anyButtonPressed \/ down)
        /\ IF down /\ (buttons[button] # down \/ repeating)
              THEN /\ onGamepadButtonPressed(button, repeating)
                   /\ tickLog' = [tickLog EXCEPT
                                     !.events = Append(@, <<button, repeating>>)]
              ELSE /\ lastOp' = "mainLoop"
                   /\ ev' = NoEvent
                   /\ noFocusHooks
                   /\ UNCHANGED <<appVars, tickLog>>
        /\ repeatingButtonTimer' = IF buttons[button] # down
                                       THEN 0 ELSE repeatingButtonTimer
        /\ buttons' = [buttons EXCEPT ![button] = down]
        /\ buttonIndex' = buttonIndex + 1
        /\ hold' = holdAfter(button, down, {ev'.invoked[i] :
                                               i \in DOMAIN ev'.invoked},
                             currentFocus' # currentFocus)
        /\ UNCHANGED <<pc, kDown>>

\* Lines 430-434: the timer moves on when a button is down and the clock has
\* moved on by more than 1000 since buttonPressTime.
AdvanceTimer(elapsed) ==
    /\ Running
    /\ pc = "input"
    /\ buttonIndex > Len(ButtonOrder)
    /\ repeatingButtonTimer' = IF anyButtonPressed /\ elapsed
                                   THEN repeatingButtonTimer + 1
                                   ELSE repeatingButtonTimer
    /\ tickLog' = [tickLog EXCEPT !.elapsed = elapsed]
    /\ pc' = "quit"
    /\ lastOp' = "mainLoop"
    /\ ev' = NoEvent
    /\ noFocusHooks
    /\ UNCHANGED <<appVars, kDown, buttonIndex, anyButtonPressed, buttons,
                   hold>>

\* The frame drawn before the animations and the tasks.
stepAfterRenderFirst(step) ==
    IF step = "quit" THEN "render"
    ELSE IF step = "render" THEN "animation"
    ELSE IF step = "animation" THEN "tasks"
    ELSE "idle"

\* Lines 441-463: what follows each step of a tick that goes on.
stepAfter(step) ==
    IF step = "quit" THEN "animation"
    ELSE IF step = "animation" THEN "tasks"
    ELSE IF step = "tasks" THEN "render"
    ELSE "idle"

\* The quit shortcut heeding the input block.
quitRequestedUnblocked(keys) == "PLUS" \in keys /\ blockInputsTokens = 0

\* Line 436: kDown & KEY_PLUS.
quitRequested(keys) == "PLUS" \in keys

\* Lines 436-439.
QuitCheck ==
    /\ Running
    /\ pc = "quit"
    /\ IF quitRequested(kDown)
          THEN /\ exit
               /\ tickLog' = [tickLog EXCEPT !.steps = Append(@, "quit"),
                                              !.exits = @ + 1,
                                              !.result = "false"]
               /\ pc' = "idle"
          ELSE /\ tickLog' = [tickLog EXCEPT !.steps = Append(@, "quit")]
               /\ pc' = stepAfter("quit")
               /\ lastOp' = "mainLoop"
               /\ ev' = NoEvent
               /\ noFocusHooks
               /\ UNCHANGED appVars
    /\ UNCHANGED <<kDown, buttonIndex, anyButtonPressed, buttons,
                   repeatingButtonTimer, hold>>

\* What a step that hands over to the next one does to the state of the loop.
handOver(step) ==
    /\ pc' = stepAfter(step)
    /\ tickLog' = [tickLog EXCEPT
                      !.steps = Append(@, step),
                      !.result = IF stepAfter(step) = "idle" THEN "true"
                                                             ELSE @]
    /\ UNCHANGED <<kDown, buttonIndex, anyButtonPressed, buttons,
                   repeatingButtonTimer, hold>>

\* Line 442: menu_animation_update; no animation is running.
AdvanceAnimations ==
    /\ Running
    /\ pc = "animation"
    /\ pending = {}
    /\ handOver("animation")
    /\ lastOp' = "mainLoop"
    /\ ev' = NoEvent
    /\ noFocusHooks
    /\ UNCHANGED appVars

\* Line 445: taskManager->frame; no task is registered.
RunTasks ==
    /\ Running
    /\ pc = "tasks"
    /\ handOver("tasks")
    /\ lastOp' = "mainLoop"
    /\ ev' = NoEvent
    /\ noFocusHooks
    /\ UNCHANGED appVars

\* Line 448: Application::frame, then the sleep and return true.
Render ==
    /\ Running
    /\ pc = "render"
    /\ frame
    /\ handOver("render")

NextLoop ==
    \/ \E applet \in BOOLEAN, keys \in SUBSET LoopButtons :
          MainLoopStart(applet, keys)
    \/ ScanButton
    \/ \E elapsed \in BOOLEAN : AdvanceTimer(elapsed)
    \/ QuitCheck
    \/ AdvanceAnimations
    \/ RunTasks
    \/ Render

SpecLoop == InitLoop /\ [][NextLoop]_vars

\* ------------------------------------------------------------------ claims
RECURSIVE SumTo(_, _)
SumTo(f, n) == IF n = 0 THEN 0 ELSE f[n] + SumTo(f, n - 1)

\* Tokens taken and not yet given back, over all transitions.
SumHeld == SumTo(held, MaxTransitions)

\* No animation of transition t is still running.
Settled(t) == \A c \in pending : c.tr # t

\* C1: once the root view has been pushed the view stack is never empty
\* (until Application::exit), whatever the order of pushView, popView and
\* completion callbacks.
C1_StackNeverEmpty == (nextTr > 1 /\ ~exited) => Len(viewStack) >= 1

\* C2: a popView called with at most one view on the stack changes nothing:
\* stacks, focus, counter, view flags, animations, willDisappear and cb.
C2_PopNoOp ==
    [][(opSeq' # opSeq /\ lastOp' = "popView" /\ Len(viewStack) <= 1)
          => UNCHANGED <<viewStack, focusStack, currentFocus,
                         blockInputsTokens, pending, forceTranslucent, hidden,
                         destroyed, disappeared, cbCount, held>>]_vars

C2_Witness ==
    /\ lastOp = "popView"
    /\ Len(viewStack) = 1
    /\ pending = {}
    /\ disappeared = {}

\* C3: with no transition in flight, focusStack.size() = viewStack.size() - 1.
C3_FocusStackTracks ==
    (nextTr > 1 /\ Running /\ pending = {})
        => Len(focusStack) = Len(viewStack) - 1

\* C4: a pushView and its paired popView together leave the counter where
\* it was: once the animations of both have completed the pair holds no
\* token, and the counter is exactly the tokens the other transitions hold.
C4_PairRestoresTokens ==
    Running =>
        /\ blockInputsTokens = SumHeld
        /\ \A q \in Views :
              (popOf[q] # NoView /\ Settled(q) /\ Settled(popOf[q]))
                  => held[q] + held[popOf[q]] = 0

\* A crossfade push (both views opaque) and its pop have both completed.
C4_Witness ==
    /\ Running
    /\ pending = {}
    /\ \E q \in Views :
          /\ popOf[q] = 2
          /\ ~translucent[1] /\ ~translucent[2]
          /\ 2 \in destroyed
          /\ blockInputsTokens = 0

\* C5: overlapping transitions keep increments and decrements matched:
\* unblockInputs never finds the counter at 0, every transition holds at most
\* one token and gives it back by one of its own callbacks, the counter is
\* not 0 while a transition still holds its token, and it is 0 when nothing
\* is in flight.
C5_MatchedPairs ==
    /\ ~underflow
    /\ \A t \in Views : held[t] \in {0, 1}
    /\ \A t \in Views : (held[t] = 1 /\ Running) => ~Settled(t)
    /\ blockInputsTokens = 0 => \A t \in Views : held[t] = 0
    /\ (Running /\ pending = {}) => blockInputsTokens = 0

\* Two transitions in flight at once, each holding its token.
C5_Witness ==
    /\ Running
    /\ \E t1, t2 \in Views :
          /\ t1 # t2
          /\ held[t1] = 1 /\ held[t2] = 1
          /\ popOf[t2] # NoView

\* -------------------------------------------------- claims on button input
\* The last step was a call of onGamepadButtonPressed.
AfterButton == lastOp = "button"

\* Parent links from view f up to view v; Len(TreeParent) if v is not above f.
RECURSIVE distance(_, _)
distance(f, v) ==
    IF f = NoView THEN Len(TreeParent)
    ELSE IF f = v THEN 0
    ELSE 1 + distance(parent[f], v)

OnChain(f, v) == distance(f, v) < Len(TreeParent)

\* Every registered action of the views from f up to the root.
ChainRefs(f) ==
    {<<v, i>> : v \in {w \in TreeViews : OnChain(f, w)},
                i \in 1..(MaxActions + 2)}
        \cap {r \in TreeViews \X (1..(MaxActions + 2)) :
                 r[2] <= Len(actions[r[1]])}

\* r is met before s on the walk from f to the root.
Before(f, r, s) ==
    \/ distance(f, r[1]) < distance(f, s[1])
    \/ r[1] = s[1] /\ r[2] < s[2]

Matches(r, button) == actionAt(r).key = button /\ actionAt(r).available

Invoked == {ev.invoked[i] : i \in 1..Len(ev.invoked)}

DpadDirection ==
    [DDOWN |-> "DOWN", DUP |-> "UP", DLEFT |-> "LEFT", DRIGHT |-> "RIGHT"]

\* C6: while blockInputsTokens > 0 a button event invokes no listener,
\* navigates nowhere, plays no cue, and leaves currentFocus, viewStack,
\* focusStack and repetitionOldFocus as they were.
C6_BlockedInputIgnored ==
    [][(opSeq' # opSeq /\ lastOp' = "button" /\ blockInputsTokens > 0)
          => /\ ev'.invoked = <<>>
             /\ ev'.navigated = <<>>
             /\ ev'.asked = <<>>
             /\ ev'.shaken = <<>>
             /\ ev'.focusEvents = 0
             /\ UNCHANGED <<currentFocus, viewStack, focusStack,
                            repetitionOldFocus>>]_vars

\* A fresh DDOWN press, blocked, with a consuming DDOWN action on the
\* focused view and repetitionOldFocus different from the focus.
C6_Witness ==
    /\ AfterButton
    /\ ev.tokens > 0
    /\ ev.button = "DDOWN" /\ ~ev.repeating
    /\ ev.focus = 3
    /\ ev.oldFocus # 3
    /\ \E i \in 1..Len(actions[3]) :
          Matches(<<3, i>>, "DDOWN") /\ actions[3][i].consumes
    /\ ev.invoked = <<>>

\* C7: one handleAction call invokes at most one listener that returns
\* true, and none after it.
C7_OneConsumingListener ==
    AfterButton =>
        \A i \in 1..Len(ev.invoked) :
            actionAt(ev.invoked[i]).consumes => i = Len(ev.invoked)

\* Two consuming available actions for the pressed key on two views of
\* the focus chain; the key was consumed by the first.
C7_Witness ==
    /\ AfterButton
    /\ ev.handled
    /\ Len(ev.invoked) = 1
    /\ \E r, s \in ChainRefs(ev.focus) :
          /\ r[1] # s[1]
          /\ Matches(r, ev.button) /\ actionAt(r).consumes
          /\ Matches(s, ev.button) /\ actionAt(s).consumes

\* C8: handleAction returns true iff an invoked listener returned true; it
\* invokes, in leaf-to-root order (registration order within a view), the
\* available actions for the pressed key that no consuming one precedes.
C8_HandleAction ==
    (AfterButton /\ ev.dispatched) =>
        /\ ev.handled <=> \E r \in Invoked : actionAt(r).consumes
        /\ \A i, j \in 1..Len(ev.invoked) :
              i < j => Before(ev.focus, ev.invoked[i], ev.invoked[j])
        /\ Invoked \subseteq ChainRefs(ev.focus)
        /\ \A r \in ChainRefs(ev.focus) :
              r \in Invoked <=>
                  /\ Matches(r, ev.button)
                  /\ \A s \in ChainRefs(ev.focus) :
                        (Matches(s, ev.button) /\ actionAt(s).consumes)
                            => ~Before(ev.focus, s, r)

\* A listener returning false on the focused view did not stop the walk:
\* the consuming listener of an ancestor was invoked after it.
C8_Witness ==
    /\ AfterButton /\ ev.dispatched
    /\ ev.handled
    /\ Len(ev.invoked) = 2
    /\ ev.invoked[1][1] = ev.focus
    /\ ev.invoked[2][1] = parent[ev.focus]
    /\ ~actionAt(ev.invoked[1]).consumes

\* C9: navigate is called only after handleAction returned false, only for
\* a D-pad button and with its direction; a consumed button neither
\* navigates nor plays the rejection cue.
C9_ActionsBeforeNavigation ==
    AfterButton =>
        /\ ev.navigated # <<>> =>
              /\ ev.dispatched
              /\ ~ev.handled
              /\ \A r \in Invoked : ~actionAt(r).consumes
              /\ ev.button \in DOMAIN DpadDirection
              /\ ev.navigated = <<DpadDirection[ev.button]>>
        /\ (\E r \in Invoked : actionAt(r).consumes) =>
              /\ ev.navigated = <<>>
              /\ ev.asked = <<>>
              /\ ev.shaken = <<>>
              /\ ev.focusEvents = 0
              /\ currentFocus = ev.focus

\* A D-pad press consumed by an action while the focus has a parent.
C9_Witness ==
    /\ AfterButton
    /\ ev.handled
    /\ ev.button = "DRIGHT" \/ ev.button = "DDOWN"
    /\ ev.focus = 3
    /\ ev.navigated = <<>>

\* C10: when no consulted ancestor has a candidate, navigate changes
\* neither the focus nor the stacks, fires no focus event and plays the cue
\* once, on the view focused at the call, in the requested direction; with
\* no focus or a focus without parent it does nothing.
C10_NavigateRejection ==
    [][(opSeq' # opSeq /\ lastOp' = "button" /\ ev'.navigated # <<>>)
          => IF currentFocus = NoView \/ parent[currentFocus] = NoView
                THEN /\ ev'.asked = <<>>
                     /\ ev'.shaken = <<>>
                     /\ ev'.focusEvents = 0
                     /\ UNCHANGED <<currentFocus, viewStack, focusStack>>
                ELSE (\A i \in 1..Len(ev'.asked) : ev'.asked[i][2] = NoView)
                        => /\ ev'.shaken =
                                 <<<<currentFocus, ev'.navigated[1]>>>>
                           /\ ev'.focusEvents = 0
                           /\ UNCHANGED <<currentFocus, viewStack,
                                          focusStack>>]_vars

\* The climb from view 3 asked views 2 and 1, neither had a candidate.
C10_Witness ==
    /\ AfterButton
    /\ ev.focus = 3
    /\ Len(ev.asked) = 2
    /\ \A i \in 1..Len(ev.asked) : ev.asked[i][2] = NoView
    /\ ev.shaken = <<<<3, "LEFT">>>>
    /\ currentFocus = 3

\* --------------------------------------------- claims on transitions, frames
\* A step that completes the hide animation c of a popView.
PopHideCompletes(c) ==
    /\ c \in pending
    /\ c.kind = "popHide"
    /\ c \notin pending'
    /\ lastOp' = "popHideDone"

\* A step that is a call of pushView.
PushCalled == lastOp' = "pushView" /\ opSeq' # opSeq

\* C11: pushView(A) on a non-empty stack appends A to viewStack, appends the
\* focus it found to focusStack and focuses the default focus of A; when the
\* hide of the popView paired with it completes, viewStack, focusStack and
\* currentFocus are again what they were when pushView(A) was called, at any
\* stack depth (each transition being issued while no popView is hiding).
C11_RoundTrip ==
    [][/\ (PushCalled /\ Len(viewStack) > 0)
            => /\ viewStack' = Append(viewStack, nextTr)
               /\ focusStack' = Append(focusStack, currentFocus)
               /\ currentFocus' = getDefaultFocus(nextTr)
       /\ \A c \in pending :
             (PopHideCompletes(c) /\ ~overlap)
                => /\ viewStack' = atPush[c.view].stack
                   /\ focusStack' = atPush[c.view].focusStack
                   /\ currentFocus' = atPush[c.view].focus]_vars

\* The pop paired with the push of the third view has completed: two views
\* and one saved focus are left, as before that push.
C11_Witness ==
    /\ lastOp = "popHideDone"
    /\ ~overlap
    /\ 3 \in destroyed
    /\ viewStack = <<1, 2>>
    /\ focusStack = <<1>>
    /\ currentFocus = 2

\* The animations a step starts.
Started == pending' \ pending

\* The step is a pushView of an opaque view over an opaque top view.
CrossfadePush ==
    /\ PushCalled
    /\ Len(viewStack) > 0
    /\ ~isTranslucent(Top(viewStack))
    /\ ~translucent'[nextTr]

\* C12: pushing opaque B over opaque A starts A.hide inside pushView; with
\* the fade animation B.show is not started by pushView but only by the step
\* in which A.hide's completion callback fires, and with another animation
\* B.show is started inside pushView together with A.hide.
C12_ShowAfterHide ==
    [][/\ CrossfadePush
            => \E h \in Started :
                  /\ h = Callback(nextTr, "pushHide", Top(viewStack), h.wait)
                  /\ hidden'[Top(viewStack)]
                  /\ h.wait
                        => /\ \A c \in Started : c.kind # "showUnblock"
                           /\ hidden'[nextTr] = hidden[nextTr]
                  /\ ~h.wait
                        => /\ Callback(nextTr, "showUnblock", nextTr, FALSE)
                                \in Started
                           /\ ~hidden'[nextTr]
       /\ \A c \in Started :
             (c.kind = "showUnblock" /\ ~PushCalled)
                => /\ lastOp' = "pushHideDone"
                   /\ c.wait
                   /\ \E h \in pending \ pending' :
                         /\ h.kind = "pushHide"
                         /\ h.tr = c.tr
                         /\ h.wait
                         /\ Top(viewStack) = h.tr => c.view = h.tr]_vars

\* A.hide of a fade push has just completed and B.show is running.
C12_Witness ==
    /\ lastOp = "pushHideDone"
    /\ Callback(2, "showUnblock", 2, TRUE) \in pending
    /\ viewStack = <<1, 2>>
    /\ hidden[1]
    /\ ~hidden[2]

\* C13 as the specification states it: after a fade push of opaque B over
\* opaque A, B.forceTranslucent is true from the pushView call until B's show
\* animation completes.  B's show starts when A's hide completes, so the flag
\* would have to be true after every step taken while A's hide is running.
C13_ForcedUntilShowDone ==
    [][/\ CrossfadePush => forceTranslucent'[nextTr]
       /\ \A h \in pending :
             (h.kind = "pushHide" /\ h.wait /\ h.tr \notin destroyed')
                => forceTranslucent'[h.tr]]_vars

\* C13: after a push of opaque B over opaque A, B.forceTranslucent is set by
\* the pushView call; a set flag is cleared by the completion callback of a
\* hide and by nothing else; the completion of A's hide clears the flag of the
\* view on top of the stack (B, unless the stack was changed meanwhile) in the
\* step that starts that view's show when the animation is the fade, so the
\* flag is false while the show runs, and the completion of a show leaves the
\* flags alone.
C13_ForcedUntilHideDone ==
    [][/\ CrossfadePush => forceTranslucent'[nextTr]
       /\ \A v \in Views :
             (forceTranslucent[v] /\ ~forceTranslucent'[v])
                => lastOp' \in {"pushHideDone", "popHideDone"}
       /\ \A h \in pending \ pending' :
             (h.kind = "pushHide" /\ lastOp' = "pushHideDone")
                => /\ ~forceTranslucent'[Top(viewStack)]
                   /\ h.wait
                         => Callback(h.tr, "showUnblock", Top(viewStack), TRUE)
                               \in Started
       /\ lastOp' = "showDone" => UNCHANGED forceTranslucent]_vars

\* A's hide of a fade push has completed: B's show is running and B is no
\* longer forced translucent.
C13_Witness ==
    /\ lastOp = "pushHideDone"
    /\ viewStack = <<1, 2>>
    /\ \E c \in pending : c.kind = "showUnblock" /\ c.tr = 2 /\ c.wait
    /\ ~forceTranslucent[2]
    /\ ~translucent[1] /\ ~translucent[2]

\* C19: the cb of every popView called on more than one view is invoked
\* exactly once: never twice, and once when the animations of that popView
\* have completed.
C19_CallbackOnce ==
    \A q \in Views :
        popOf[q] # NoView
            => /\ cbCount[q] <= 1
               /\ (Running /\ Settled(q)) => cbCount[q] = 1

\* The views on the stack.
OnStack(stack) == {stack[i] : i \in 1..Len(stack)}

\* C20: the hide-completion callback of a popView removes from viewStack the
\* view that popView hid and destroys it, whatever was called in between: the
\* view is on top and not yet destroyed when the callback runs, every view
\* that leaves viewStack is destroyed, and no destroyed view stays on it.
C20_PopRemovesHiddenView ==
    [][/\ \A c \in pending :
             PopHideCompletes(c)
                => /\ Len(viewStack) > 0
                   /\ Top(viewStack) = c.view
                   /\ c.view \notin destroyed
       /\ OnStack(viewStack) \ OnStack(viewStack') \subseteq destroyed'
       /\ OnStack(viewStack') \cap destroyed' = {}]_vars

\* The place in the stack of the topmost view that is not translucent, 1
\* when every view is translucent.
Opaque(stack) ==
    {i \in 1..Len(stack) : ~(translucent[stack[i]] \/ forceTranslucent[stack[i]])}

LowestDrawn(stack) ==
    IF Opaque(stack) = {} THEN 1
    ELSE CHOOSE i \in Opaque(stack) : \A j \in Opaque(stack) : j <= i

\* C16: frame draws exactly the views from the topmost view that is not
\* translucent (the bottom of the stack when all are translucent) up to the
\* top, each once, bottom to top, and no view below.
C16_DrawsVisibleRange ==
    lastOp = "frame"
        => rendered = SubSeq(viewStack, LowestDrawn(viewStack), Len(viewStack))

\* A frame that has skipped the bottom view and drawn two views, the upper
\* one translucent only by force.
C16_Witness ==
    /\ lastOp = "frame"
    /\ Len(viewStack) = 3
    /\ rendered = <<2, 3>>
    /\ forceTranslucent[3] /\ ~translucent[3]

\* C17: Application::frame never calls frame() on a destroyed view, for any
\* sequence of pushView, popView and animation completions.
C17_NoDestroyedViewDrawn ==
    lastOp = "frame" => \A i \in 1..Len(rendered) : rendered[i] \notin destroyed

\* ------------------------------------------------------ claims on mainLoop
\* The steps of a tick that goes on, in their order.
TickSteps == <<"input", "quit", "animation", "tasks", "render">>

\* C14: the steps taken so far in a tick are always the first ones of input
\* (sampling and dispatch), quit check, animation advance, task pass, render,
\* each once and in this order; a tick that has returned true has taken all
\* five, and the frame has been drawn by its last step.
C14_TickOrder ==
    /\ Len(tickLog.steps) <= Len(TickSteps)
    /\ tickLog.steps = SubSeq(TickSteps, 1, Len(tickLog.steps))
    /\ tickLog.events # <<>> => Len(tickLog.steps) >= 1
    /\ tickLog.result = "true"
          => /\ tickLog.steps = TickSteps
             /\ pc = "idle"
             /\ lastOp = "frame"
    /\ (pc = "idle" /\ tickLog.result = "none") => tickLog.steps = <<>>

\* A tick that has dispatched a button event and returned true.
C14_Witness ==
    /\ pc = "idle"
    /\ tickLog.result = "true"
    /\ tickLog.events # <<>>
    /\ rendered # <<>>

\* C15: a tick returns false exactly when appletMainLoop answered false or
\* PLUS is held in it, whatever the input block counter is and whatever the
\* dispatch of the key did; it has then called exit once and has advanced no
\* animation, run no task and drawn no frame; a tick that returns true has
\* not called exit.
C15_QuitConditions ==
    (pc = "idle" /\ tickLog.result # "none")
        => /\ tickLog.result = "false"
                <=> (~tickLog.applet \/ "PLUS" \in tickLog.held)
           /\ tickLog.result = "false"
                => /\ tickLog.exits = 1
                   /\ exited
                   /\ \A i \in 1..Len(tickLog.steps) :
                         tickLog.steps[i] \in {"input", "quit"}
                   /\ rendered = <<>>
           /\ tickLog.result = "true" => (tickLog.exits = 0 /\ ~exited)

\* PLUS held while inputs are blocked: its event was dispatched and
\* ignored, and the tick has returned false.
C15_Witness ==
    /\ pc = "idle"
    /\ tickLog.result = "false"
    /\ tickLog.applet
    /\ blockInputsTokens > 0
    /\ tickLog.events = <<<<"PLUS", FALSE>>>>
    /\ exited

\* The pass of the loop over the buttons that handles button b.
Scans(b) ==
    /\ pc = "input"
    /\ buttonIndex <= Len(ButtonOrder)
    /\ ButtonOrder[buttonIndex] = b
    /\ buttonIndex' = buttonIndex + 1

\* The repeat timer is past the delay and on the cadence.
RepeatDue ==
    /\ repeatingButtonTimer > BUTTON_REPEAT_DELAY
    /\ repeatingButtonTimer % BUTTON_REPEAT_CADENCY = 0

\* C18: a button gives a press event in the tick it goes down; while it
\* stays down it gives an event, flagged as a repeat, exactly in the ticks
\* that find repeatingButtonTimer above BUTTON_REPEAT_DELAY and a multiple of
\* BUTTON_REPEAT_CADENCY; a button that is up gives none; a button whose
\* status changed sets the timer to 0 and no other pass changes it; and the
\* timer moves on by one in a tick with a button down and the clock moved on.
C18_AutoRepeat ==
    [][/\ \A b \in LoopButtons :
             Scans(b) =>
                LET down == b \in kDown
                    sent == Len(tickLog'.events) > Len(tickLog.events)
                IN  /\ (down /\ ~buttons[b]) => sent
                    /\ (down /\ buttons[b]) => (sent <=> RepeatDue)
                    /\ ~down => ~sent
                    /\ sent => tickLog'.events
                                  = Append(tickLog.events, <<b, RepeatDue>>)
                    /\ repeatingButtonTimer'
                          = IF buttons[b] # down THEN 0
                                                 ELSE repeatingButtonTimer
                    /\ buttons' = [buttons EXCEPT ![b] = down]
       /\ (pc = "input" /\ pc' = "quit")
             => repeatingButtonTimer'
                  = IF kDown # {} /\ tickLog'.elapsed
                       THEN repeatingButtonTimer + 1
                       ELSE repeatingButtonTimer
       /\ (\A b \in LoopButtons : ~Scans(b))
             => /\ UNCHANGED buttons
                /\ Len(tickLog'.events) <= Len(tickLog.events)
                /\ pc' = "quit" \/ UNCHANGED repeatingButtonTimer]_vars

\* DLEFT, held since the timer was reset, gives its second repeat event when
\* the timer has come to 25.
C18_Witness ==
    /\ pc = "input"
    /\ repeatingButtonTimer = 25
    /\ buttons["DLEFT"]
    /\ tickLog.events = <<<<"DLEFT", TRUE>>>>
    /\ tickLog.held = {"DLEFT"}

\* ------------------- claims on call order, navigation, focus and repeats
\* C21: while a hide or show animation started by a pushView or popView call
\* is still running, blockInputsTokens > 0.
C21_BlockedWhileAnimating ==
    (Running /\ pending # {}) => blockInputsTokens > 0

\* The places of the calls of one name in the call log.
Places(name) == {i \in 1..Len(calls) : calls[i][1] = name}

Animating == Places("show") \cup Places("hide")

Preparing ==
    Places("setBoundaries") \cup Places("invalidate") \cup Places("willAppear")

\* C22 as the specification states it: in every pushView call setBoundaries,
\* invalidate and willAppear all come before any show or hide is started.
C22_PreparedBeforeAnimating ==
    lastOp = "pushView"
        => \A i \in Preparing : \A j \in Animating : i < j

\* C22: every pushView call makes exactly one call each of setBoundaries,
\* invalidate and willAppear on the incoming view, in this order and before
\* the view is put on viewStack; it starts at least one animation, and every
\* animation it starts (the outgoing view's hide and the incoming view's
\* show) is started before invalidate and willAppear, those of a push over
\* an opaque view also before setBoundaries, the show of the other pushes
\* right after setBoundaries.
C22_AnimatingBeforePrepared ==
    lastOp = "pushView"
        => /\ \A n \in {"setBoundaries", "invalidate", "willAppear",
                          "viewStack.push_back"} :
                 /\ Cardinality(Places(n)) = 1
                 /\ \A i \in Places(n) : calls[i][2] = Top(viewStack)
           /\ \A b \in Places("setBoundaries"), i \in Places("invalidate"),
                 w \in Places("willAppear"),
                 p \in Places("viewStack.push_back") :
                 /\ b < i /\ i < w /\ w < p
                 /\ Animating # {}
                 /\ \A j \in Animating : j < i
                 /\ Places("hide") # {}
                       => \A j \in Animating : j < b
                 /\ Places("hide") = {}
                       => Animating = {b + 1}

\* A push with a slide over an opaque view: the incoming view's show and the
\* outgoing view's hide were started, then the view was prepared.
C22_Witness ==
    /\ lastOp = "pushView"
    /\ viewStack = <<1, 2>>
    /\ Places("show") # {}
    /\ Places("hide") # {}
    /\ \A j \in Animating : \A i \in Preparing : j < i

\* The button event made navigate run.
Navigated == lastOp = "button" /\ ev.navigated # <<>>

\* The ancestors of a view, its parent first and the root of its tree last.
Ancestors(v) == IF v = NoView THEN <<>> ELSE Tail(focusChain(v))

\* What navigate asked goes up the ancestors of the focus, the parent first,
\* and every lookup but the last one was a miss.
AskedUpwards ==
    LET chain == Ancestors(ev.focus)
    IN  /\ Len(ev.asked) <= Len(chain)
        /\ \A i \in 1..Len(ev.asked) :
              /\ ev.asked[i][1] = chain[i]
              /\ i < Len(ev.asked) => ev.asked[i][2] = NoView
        /\ \A i, j \in 1..Len(ev.asked) :
              ev.asked[i][1] = ev.asked[j][1] => i = j

\* C23 as the specification states it: the lookups go up the ancestors, each
\* asked at most once, and no lookup after the first one asks the root of the
\* tree.
C23_RootNotAsked ==
    Navigated
        => /\ AskedUpwards
           /\ \A i \in 2..Len(ev.asked) : hasParent(ev.asked[i][1])

\* C23: navigate asks nothing when the focus has no parent; otherwise it asks
\* the parent of the focus first and after every miss the next ancestor, the
\* root of the tree included, each at most once, so at most as many lookups
\* as the focus has ancestors; it stops at the first answer, and finds
\* nothing only after the root has been asked.
C23_AsksUpToRoot ==
    Navigated
        => LET chain == Ancestors(ev.focus)
           IN  /\ AskedUpwards
               /\ chain = <<>> => ev.asked = <<>> /\ ev.found = NoView
               /\ chain # <<>>
                     => /\ Len(ev.asked) >= 1
                        /\ ev.found = ev.asked[Len(ev.asked)][2]
                        /\ ev.found = NoView
                              => /\ Len(ev.asked) = Len(chain)
                                 /\ ~hasParent(ev.asked[Len(ev.asked)][1])

\* From view 3 the parent 2 had no answer, the root 1 was asked and answered
\* with view 5.
C23_Witness ==
    /\ Navigated
    /\ ev.focus = 3
    /\ ev.asked = <<<<2, NoView>>, <<1, 5>>>>
    /\ currentFocus = 5

\* The views that are focused and not deleted.
LiveFocused == focused \ destroyed

\* What a change of the focus from one view to another has to call.
FocusChange(old, new) ==
    (IF old # NoView THEN <<<<"onFocusLost", "oldFocus">>>> ELSE <<>>)
    \o <<<<"currentFocus", "newFocus">>,
         <<"globalFocusChangeEvent", "newFocus">>>>
    \o (IF new # NoView THEN <<<<"onFocusGained", "newFocus">>>> ELSE <<>>)

FocusStep ==
    /\ currentFocus' # currentFocus
          => /\ focusLog' = FocusChange(currentFocus, currentFocus')
             /\ focused' = ((focused \ {currentFocus}) \cup {currentFocus'})
                                \ {NoView}
    /\ currentFocus' = currentFocus
          => /\ focusLog' = <<>>
             /\ focused' = focused
    /\ Cardinality(LiveFocused') <= 1
    /\ LiveFocused' \subseteq {currentFocus'}

\* C24: a step that changes currentFocus calls onFocusLost on the old focus,
\* then assigns currentFocus, fires globalFocusChangeEvent once and calls
\* onFocusGained on the new focus; a step that leaves currentFocus as it is,
\* a giveFocus of the focused view included, calls no hook and fires no
\* event; after every step at most one view that is not deleted has got
\* onFocusGained without a later onFocusLost, and it is currentFocus.
C24_OneFocus == [][FocusStep]_vars

\* A button made navigate give the focus to view 5: view 3 lost the focus,
\* the event fired, view 5 gained the focus.
C24_Witness ==
    /\ lastOp = "button"
    /\ ev.focus = 3
    /\ focusLog = FocusChange(3, 5)
    /\ focused = {5}
    /\ currentFocus = 5

\* The pass for button b calls onGamepadButtonPressed.
Sends(b) == Scans(b) /\ Len(tickLog'.events) > Len(tickLog.events)

\* The actions the pass for button b invokes that b has invoked before since
\* it went down.
InvokedAgain(b) ==
    IF b \in kDown /\ buttons[b]
        THEN {ev'.invoked[i] : i \in DOMAIN ev'.invoked} \cap hold[b].invoked
        ELSE {}

\* A repeat that finds the focus where the last handled event found it does
\* nothing at all.
RepeatDropped(b) ==
    (Sends(b) /\ ev'.repeating /\ repetitionOldFocus = currentFocus)
        => /\ ~ev'.dispatched
           /\ ev'.invoked = <<>>
           /\ ev'.navigated = <<>>
           /\ UNCHANGED <<currentFocus, repetitionOldFocus, focusLog>>

\* C25 as the specification states it: a repeat is dropped when currentFocus
\* is repetitionOldFocus, and no action is invoked a second time for one
\* press of a button, however long it is held.
C25_OncePerPress ==
    [][\A b \in LoopButtons :
          /\ RepeatDropped(b)
          /\ Scans(b) => InvokedAgain(b) = {}]_vars

\* C25: a repeat is dropped before any action dispatch or navigation when
\* currentFocus is repetitionOldFocus, the focus the last handled event
\* found; a repeat is acted upon only when the focus differs from it and the
\* input is not blocked; and a held button invokes an action it has invoked
\* before only if currentFocus has changed since it last invoked one, so
\* with the focus left alone every action is invoked at most once per press.
C25_RepeatsFollowFocus ==
    [][\A b \in LoopButtons :
          /\ RepeatDropped(b)
          /\ (Sends(b) /\ ev'.repeating /\ ev'.dispatched)
                => /\ repetitionOldFocus # currentFocus
                   /\ blockInputsTokens = 0
                   /\ repetitionOldFocus' = currentFocus
          /\ (Scans(b) /\ InvokedAgain(b) # {}) => hold[b].moved
          /\ (Scans(b) /\ b \in kDown /\ buttons[b] /\ ~hold[b].moved
                       /\ hold[b].invoked # {})
                => ev'.invoked = <<>>]_vars

\* DDOWN invoked the action of view 1 when it went down; it is still down
\* with the timer at 20 and the focus where it was: the repeat is dropped.
C25_Witness ==
    /\ lastOp = "button"
    /\ ev.button = "DDOWN"
    /\ ev.repeating
    /\ ev.tokens = 0
    /\ ~ev.dispatched
    /\ repeatingButtonTimer = 20
    /\ hold["DDOWN"] = [invoked |-> {<<1, 3>>}, moved |-> FALSE]

\* C26: the pass for a button that is down and was up in the tick before
\* calls onGamepadButtonPressed with repeating = false, whatever the other
\* buttons and the timer are, and the repeat filter does not drop the event.
C26_FreshPress ==
    [][\A b \in LoopButtons :
          (Scans(b) /\ b \in kDown /\ ~buttons[b])
             => /\ tickLog'.events = Append(tickLog.events, <<b, FALSE>>)
                /\ ~ev'.repeating
                /\ blockInputsTokens = 0 => ev'.dispatched]_vars

====
